---------------------------- MODULE Spec2Model ----------------------------
(***************************************************************************)
(* A model of the ollama-discord-bot repository:                           *)
(*   src/gamification.py       the progression ledger (xp, level, badges)  *)
(*   src/ollama_discord_bot.py the per-message handler on_message          *)
(*                                                                         *)
(* Spec       : the bot.  Messages arrive, each is handled by its own      *)
(*              asyncio task; tasks interleave at the awaits of on_message.*)
(* LedgerSpec : GamificationManager driven through its public methods by   *)
(*              an arbitrary caller (any positive amount, reset allowed).  *)
(***************************************************************************)
EXTENDS Integers, Sequences, FiniteSets, TLC

VARIABLES
    data,                  \* GamificationManager.data  (gamification.py:10)
    file,                  \* gamification_data.json: whether it exists, its content
    ret,                   \* the call and return value of the last add_xp
    save_failures,         \* how many calls of save_data raised
    conversation_history,  \* ollama_discord_bot.py:107
    user_preferences,      \* ollama_discord_bot.py:110
    MAX_CONTEXT_LENGTH,    \* ollama_discord_bot.py:43 (read from the environment)
    task,                  \* the on_message coroutines started so far, in
                           \* arrival order: where each is, and the locals
                           \* of those that have not returned
    last_trim,             \* the last slice taken at line 353 or 424
    ollama,                \* the locals of a call of try_ollama_request
    watchdog,              \* where check_inactivity_loop is
    leaderboard            \* the last call of get_leaderboard and its result

vars == <<data, file, ret, save_failures, conversation_history, user_preferences,
          MAX_CONTEXT_LENGTH, task, last_trim, ollama, watchdog, leaderboard>>

ledgerVars == <<data, file, ret, save_failures>>
\* what neither the ledger's methods nor on_message touch
sideVars == <<ollama, watchdog, leaderboard>>
botVars == <<conversation_history, user_preferences, MAX_CONTEXT_LENGTH,
             task, last_trim>>

-----------------------------------------------------------------------------
(* Bounds of the model *)

\* xp a ledger entry may reach in LedgerSpec
MaxXp == 3700
\* messages of the target channel handled in one run of Spec
MaxMessages == 2
\* largest configured MAX_CONTEXT_LENGTH explored
MaxWindow == 2
\* how many times save_data may fail in one run
MaxSaveFailures == 1
\* lines of a response body explored in StreamSpec
MaxLines == 3
\* users of a ledger and largest top_n explored in LeaderboardSpec
MaxBoardUsers == 3
MaxTopN == 4

\* Python's None
None == "None"

\* discord user ids (message.author.id)
Users == {1, 2}

\* datetime.utcnow().isoformat() at a call of add_xp for user_id.  The
\* program never looks into a timestamp, so one value that differs from the
\* stored last_message stands for every reading of the clock.
utcnow(d, user_id) ==
    IF ToString(user_id) \in DOMAIN d /\ d[ToString(user_id)].last_message = "t1"
    THEN "t2" ELSE "t1"

\* amounts a caller of add_xp passes in LedgerSpec
Amounts == {100, 250, 1000, 3000}

\* last_trim before any trim
NoTrim == [untrimmed |-> <<>>, retained |-> <<>>, limit |-> 0]

\* the empty dict {}
EmptyDict == [k \in {} |-> None]

Range(s) == {s[i] : i \in DOMAIN s}

-----------------------------------------------------------------------------
(* src/gamification.py *)

\* get_xp_for_level with the quadratic ramp starting one level early
get_xp_for_level_from5(level) ==
    IF level < 5 THEN 100 * level ELSE 100 * (level * level)

\* get_xp_for_level: linear for levels 1-5, quadratic for 6+
get_xp_for_level(level) ==
    IF level <= 5 THEN 100 * level ELSE 100 * (level * level)

\* the badge_milestones table of check_badge_unlock
badge_milestones ==
    (2 :> "Congrats, You Did Something") @@
    (5 :> "Tryhard in Training") @@
    (10 :> "Still Here? Wow.") @@
    (20 :> "Professional Procrastinator") @@
    (30 :> "Overachiever Alert") @@
    (50 :> "Touch Grass, Maybe?")

check_badge_unlock(level, user) ==
    IF level \in DOMAIN badge_milestones
          /\ badge_milestones[level] \notin Range(user.badges)
    THEN badge_milestones[level]
    ELSE None

\* the entry get_user creates for an unknown user
NewUser == [xp |-> 0, level |-> 1, last_message |-> None, badges |-> <<>>]

\* get_user: the ledger after the lookup (the entry is created if missing);
\* the key is str(user_id)
get_user(d, user_id) ==
    IF ToString(user_id) \in DOMAIN d THEN d
    ELSE d @@ (ToString(user_id) :> NewUser)

\* the loop of add_xp looking up the badge before it raises the level
RECURSIVE LevelUpLoop_badgeFirst(_, _, _)
LevelUpLoop_badgeFirst(user, leveled_up, new_badges) ==
    IF user.xp >= get_xp_for_level(user.level + 1)
    THEN LET badge == check_badge_unlock(user.level, user)
             u1 == [user EXCEPT !.level = @ + 1]
         IN IF badge # None
            THEN LevelUpLoop_badgeFirst([u1 EXCEPT !.badges = Append(@, badge)],
                                        TRUE, Append(new_badges, badge))
            ELSE LevelUpLoop_badgeFirst(u1, TRUE, new_badges)
    ELSE [user |-> user, leveled_up |-> leveled_up, new_badges |-> new_badges]

\* the loop of add_xp assigning the new badge to the list instead of
\* appending it
RECURSIVE LevelUpLoop_assignBadge(_, _, _)
LevelUpLoop_assignBadge(user, leveled_up, new_badges) ==
    IF user.xp >= get_xp_for_level(user.level + 1)
    THEN LET u1 == [user EXCEPT !.level = @ + 1]
             badge == check_badge_unlock(u1.level, u1)
         IN IF badge # None
            THEN LevelUpLoop_assignBadge([u1 EXCEPT !.badges = <<badge>>], TRUE,
                                         Append(new_badges, badge))
            ELSE LevelUpLoop_assignBadge(u1, TRUE, new_badges)
    ELSE [user |-> user, leveled_up |-> leveled_up, new_badges |-> new_badges]

\* the loop of add_xp as an if: at most one level per call
LevelUpLoop_once(user, leveled_up, new_badges) ==
    IF user.xp >= get_xp_for_level(user.level + 1)
    THEN LET u1 == [user EXCEPT !.level = @ + 1]
             badge == check_badge_unlock(u1.level, u1)
         IN IF badge # None
            THEN [user |-> [u1 EXCEPT !.badges = Append(@, badge)],
                  leveled_up |-> TRUE, new_badges |-> Append(new_badges, badge)]
            ELSE [user |-> u1, leveled_up |-> TRUE, new_badges |-> new_badges]
    ELSE [user |-> user, leveled_up |-> leveled_up, new_badges |-> new_badges]

\* the while loop of add_xp (lines 39-47)
RECURSIVE LevelUpLoop(_, _, _)
LevelUpLoop(user, leveled_up, new_badges) ==
    IF user.xp >= get_xp_for_level(user.level + 1)
    THEN LET u1 == [user EXCEPT !.level = @ + 1]
             badge == check_badge_unlock(u1.level, u1)
         IN IF badge # None
            THEN LevelUpLoop([u1 EXCEPT !.badges = Append(@, badge)], TRUE,
                             Append(new_badges, badge))
            ELSE LevelUpLoop(u1, TRUE, new_badges)
    ELSE [user |-> user, leveled_up |-> leveled_up, new_badges |-> new_badges]

\* add_xp writing back a ledger that holds only this user's entry
add_xp_dropsOthers(d, user_id, amount, now) ==
    LET key == ToString(user_id)
        d1 == get_user(d, user_id)
        u0 == [d1[key] EXCEPT !.xp = @ + amount, !.last_message = now]
        r  == LevelUpLoop(u0, FALSE, <<>>)
    IN [data |-> (key :> r.user),
        leveled_up |-> r.leveled_up,
        level |-> r.user.level,
        xp |-> r.user.xp,
        new_badges |-> r.new_badges]

\* add_xp with the amount assigned to xp instead of added
add_xp_assign(d, user_id, amount, now) ==
    LET key == ToString(user_id)
        d1 == get_user(d, user_id)
        u0 == [d1[key] EXCEPT !.xp = amount, !.last_message = now]
        r  == LevelUpLoop(u0, FALSE, <<>>)
    IN [data |-> [d1 EXCEPT ![key] = r.user],
        leveled_up |-> r.leveled_up,
        level |-> r.user.level,
        xp |-> r.user.xp,
        new_badges |-> r.new_badges]

\* add_xp up to, not including, save_data: the mutated ledger and the
\* returned tuple (leveled_up, level, xp, new_badges)
add_xp(d, user_id, amount, now) ==
    LET key == ToString(user_id)
        d1 == get_user(d, user_id)
        u0 == [d1[key] EXCEPT !.xp = @ + amount, !.last_message = now]
        r  == LevelUpLoop(u0, FALSE, <<>>)
    IN [data |-> [d1 EXCEPT ![key] = r.user],
        leveled_up |-> r.leveled_up,
        level |-> r.user.level,
        xp |-> r.user.xp,
        new_badges |-> r.new_badges]

\* load_data: {} when the file does not exist
load_data(f) == IF f.exists THEN f.content ELSE EmptyDict

\* the file save_data leaves: the whole ledger
Saved(d) == [exists |-> TRUE, content |-> d]

\* no file on disk
NoFile == [exists |-> FALSE, content |-> EmptyDict]

\* the record kept of an add_xp call: its arguments and what it returned
Returned(user_id, amount, r) ==
    [user_id |-> user_id, amount |-> amount, leveled_up |-> r.leveled_up,
     level |-> r.level, xp |-> r.xp, new_badges |-> r.new_badges]

NoCall == [user_id |-> 0, amount |-> 0, leveled_up |-> FALSE,
           level |-> 0, xp |-> 0, new_badges |-> <<>>]

\* add_xp as AddXp, but leaving the file for a later write
AddXp_deferredWrite(user_id, amount) ==
    /\ LET r == add_xp(data, user_id, amount, utcnow(data, user_id))
       IN /\ r.xp <= MaxXp
          /\ data' = r.data
          /\ ret' = Returned(user_id, amount, r)
    /\ UNCHANGED <<file, save_failures, botVars, sideVars>>

\* GamificationManager.add_xp called by an arbitrary caller
AddXp(user_id, amount) ==
    /\ LET r == add_xp(data, user_id, amount, utcnow(data, user_id))
       IN /\ r.xp <= MaxXp
          /\ data' = r.data
          /\ file' = Saved(r.data)
          /\ ret' = Returned(user_id, amount, r)
    /\ UNCHANGED <<save_failures, botVars, sideVars>>

\* add_xp when save_data raises (open or json.dump fails, lines 19-20): the
\* exception leaves add_xp at line 48, after the ledger in memory was
\* changed (lines 32-47); the call returns nothing.  The file is left as it
\* was; the program reads it only when it starts.
AddXpSaveFails(user_id, amount) ==
    /\ save_failures < MaxSaveFailures
    /\ LET r == add_xp(data, user_id, amount, utcnow(data, user_id))
       IN /\ r.xp <= MaxXp
          /\ data' = r.data
    /\ ret' = NoCall
    /\ save_failures' = save_failures + 1
    /\ UNCHANGED <<file, botVars, sideVars>>

\* GamificationManager.get_user_level / get_user_badges: get_user creates the
\* entry in memory and nothing is saved
GetUserLevel(user_id) ==
    /\ data' = get_user(data, user_id)
    /\ UNCHANGED <<file, ret, save_failures>>
    /\ UNCHANGED <<botVars, sideVars>>

\* GamificationManager.reset
Reset ==
    /\ data' = EmptyDict
    /\ file' = Saved(EmptyDict)
    /\ UNCHANGED <<ret, save_failures>>
    /\ UNCHANGED <<botVars, sideVars>>

\* no call of try_ollama_request or get_leaderboard, the watchdog not started
NoOllamaCall == [pc |-> "none"]
\* (order is the order in which self.data iterates, the order in which its
\* keys were inserted)
NoLeaderboard == [called |-> FALSE, order |-> <<>>, top_n |-> 0, rows |-> <<>>]
SideInit ==
    /\ ollama = NoOllamaCall
    /\ watchdog = "not started"
    /\ leaderboard = NoLeaderboard

LedgerInit ==
    /\ file = NoFile
    /\ data = load_data(file)
    /\ ret = NoCall
    /\ save_failures = 0
    /\ conversation_history = EmptyDict
    /\ user_preferences = EmptyDict
    /\ MAX_CONTEXT_LENGTH = 1
    /\ task = <<>>
    /\ last_trim = NoTrim
    /\ SideInit

LedgerNext ==
    \/ \E u \in Users, a \in Amounts : AddXp(u, a)
    \/ \E u \in Users : GetUserLevel(u)
    \/ Reset

LedgerSpec == LedgerInit /\ [][LedgerNext]_vars

\* ---- get_leaderboard (lines 58-64) ----

\* the key of the sort (line 63): level, then xp
Outranks(a, b) == a.level > b.level \/ (a.level = b.level /\ a.xp > b.xp)

RECURSIVE sort_reverse(_)
\* list.sort(key=..., reverse=True): descending and stable, rows with equal
\* keys keep their order
sort_reverse(rows) ==
    IF rows = <<>> THEN <<>>
    ELSE LET top == {k \in DOMAIN rows :
                        \A j \in DOMAIN rows : ~Outranks(rows[j], rows[k])}
             k == CHOOSE k \in top : \A j \in top : k <= j
         IN <<rows[k]>> \o sort_reverse(SubSeq(rows, 1, k - 1)
                                          \o SubSeq(rows, k + 1, Len(rows)))

\* the rows of line 60-62 in the order of the dict
LeaderboardRows(d, order) ==
    [k \in DOMAIN order |->
        [user_id |-> order[k], level |-> d[order[k]].level,
         xp |-> d[order[k]].xp]]

\* get_leaderboard without the sort
get_leaderboard_unsorted(d, order, top_n) ==
    LET leaderboard_ == LeaderboardRows(d, order)
    IN SubSeq(leaderboard_, 1,
              IF top_n < Len(leaderboard_) THEN top_n ELSE Len(leaderboard_))

\* get_leaderboard(top_n), top_n >= 0
get_leaderboard(d, order, top_n) ==
    LET leaderboard_ == sort_reverse(LeaderboardRows(d, order))
    IN SubSeq(leaderboard_, 1,
              IF top_n < Len(leaderboard_) THEN top_n ELSE Len(leaderboard_))

\* the users of the ledgers of LeaderboardSpec
BoardUsers == 1..MaxBoardUsers

\* the xp of a user of such a ledger; 0 stands for a user without an entry
BoardXp == {0, 10, 100, 200, 1000, 3600}

RECURSIVE LedgerWith(_, _)
\* the ledger in which add_xp gave xp[u] to each of the first n users
LedgerWith(xp, n) ==
    IF n = 0 THEN EmptyDict
    ELSE IF xp[n] = 0 THEN LedgerWith(xp, n - 1)
    ELSE add_xp(LedgerWith(xp, n - 1), n, xp[n], "t1").data

\* the orders in which a dict with these keys can iterate
Orders(keys) ==
    {o \in [1..Cardinality(keys) -> keys] :
        \A a, b \in DOMAIN o : a # b => o[a] # o[b]}

GetLeaderboard(top_n) ==
    /\ leaderboard' = [leaderboard EXCEPT
                         !.called = TRUE,
                         !.top_n = top_n,
                         !.rows = get_leaderboard(data, leaderboard.order,
                                                  top_n)]
    /\ UNCHANGED <<ledgerVars, botVars, ollama, watchdog>>

LeaderboardInit ==
    /\ \E xp \in [BoardUsers -> BoardXp] : data = LedgerWith(xp, MaxBoardUsers)
    /\ file = Saved(data)
    /\ ret = NoCall
    /\ save_failures = 0
    /\ conversation_history = EmptyDict
    /\ user_preferences = EmptyDict
    /\ MAX_CONTEXT_LENGTH = 1
    /\ task = <<>>
    /\ last_trim = NoTrim
    /\ ollama = NoOllamaCall
    /\ watchdog = "not started"
    /\ \E o \in Orders(DOMAIN data) :
          leaderboard = [NoLeaderboard EXCEPT !.order = o]

LeaderboardNext == \E top_n \in 0..MaxTopN : GetLeaderboard(top_n)

\* get_leaderboard on any ledger of up to MaxBoardUsers users
LeaderboardSpec == LeaderboardInit /\ [][LeaderboardNext]_vars

\* the ledger on a disk that can fail
PersistNext ==
    \/ LedgerNext
    \/ \E u \in Users, a \in Amounts : AddXpSaveFails(u, a)

PersistSpec == LedgerInit /\ [][PersistNext]_vars

-----------------------------------------------------------------------------
(* src/ollama_discord_bot.py *)

\* Text is a sequence: a message's content is its sequence of words (strip()
\* removes what surrounds them), a reply is its sequence of characters.

\* the roles load_roles_from_directory found, with their system prompts
BOT_ROLES ==
    ("sarcastic_therapist" :> [system_prompt |-> <<"prompt of sarcastic_therapist">>]) @@
    ("pirate" :> [system_prompt |-> <<"prompt of pirate">>])

\* DEFAULT_ROLE_NAME is a loaded role, so it is the default (lines 85-86)
CURRENT_DEFAULT_ROLE == "sarcastic_therapist"

\* contents of the messages that arrive in the target channel
Contents ==
    { <<>>, <<"hello">>, <<"/clear">>, <<"/listroles">>,
      <<"/setrole", "pirate">>, <<"/setrole", "wizard">>,
      <<"/gif", "on">>, <<"/gif", "off">>, <<"/gif">> }

\* ---- try_ollama_request (lines 462-571) ----
\* A reply is its sequence of characters; "User:" and "Assistant:" stand
\* for the characters of these labels, which the code matches as a whole.

\* the characters str.strip() and the pattern \s remove
Whitespace == {" ", "\n"}
\* the labels of the pattern ^(User|Assistant): (line 553)
Labels == {"User:", "Assistant:"}

RECURSIVE lstrip(_)
lstrip(t) ==
    IF t # <<>> /\ Head(t) \in Whitespace THEN lstrip(Tail(t)) ELSE t

RECURSIVE rstrip(_)
rstrip(t) ==
    IF t # <<>> /\ t[Len(t)] \in Whitespace
    THEN rstrip(SubSeq(t, 1, Len(t) - 1))
    ELSE t

\* str.strip()
strip(t) == rstrip(lstrip(t))

RECURSIVE SkipSpace(_, _)
\* where the \s* that starts at position i ends
SkipSpace(t, i) ==
    IF i <= Len(t) /\ t[i] \in Whitespace THEN SkipSpace(t, i + 1) ELSE i

RECURSIVE re_sub(_, _)
\* re.sub(r'^(User|Assistant):\s*', '', t, flags=re.MULTILINE) from
\* position i on: ^ matches at the start and after every newline of t
re_sub(t, i) ==
    IF i > Len(t) THEN <<>>
    ELSE IF t[i] \in Labels /\ (i = 1 \/ t[i - 1] = "\n")
         THEN re_sub(t, SkipSpace(t, i + 1))
         ELSE <<t[i]>> \o re_sub(t, i + 1)

\* lines 552-554
clean_reply(full_reply) == strip(re_sub(strip(full_reply), 1))

\* str.find(ch, start) on positions 1..Len(t); 0 when there is none
find(t, ch, start) ==
    LET S == {i \in start..Len(t) : t[i] = ch}
    IN IF S = {} THEN 0 ELSE CHOOSE i \in S : \A j \in S : i <= j

\* the cut of the reply as TwoSentences, but after the first period
TwoSentences_firstPeriod(ai_response) ==
    LET first_period_index == find(ai_response, ".", 1)
    IN IF first_period_index # 0
       THEN SubSeq(ai_response, 1, first_period_index)
       ELSE ai_response

\* lines 427-433 of on_message: the reply cut after its second period
TwoSentences(ai_response) ==
    LET first_period_index == find(ai_response, ".", 1)
    IN IF first_period_index # 0
       THEN LET second_period_index ==
                    find(ai_response, ".", first_period_index + 1)
            IN IF second_period_index # 0
               THEN SubSeq(ai_response, 1, second_period_index)
               ELSE ai_response
       ELSE ai_response

\* A line of the response body.  raw is "json" for a line that json.loads
\* accepts (after the "data: " prefix, if any, is cut at lines 503-506) and
\* otherwise names what the line is; object tells a JSON object from
\* another JSON value (Skipped("json") is such a value, a number say);
\* response_is_text tells a text token from a number.
Skipped(raw) ==
    [raw |-> raw, prefix |-> FALSE, object |-> FALSE, has_response |-> FALSE,
     response_is_text |-> TRUE, response |-> <<>>, message |-> "absent",
     content |-> <<>>, done |-> FALSE]

Json(prefix, has_response, response, message, content, done) ==
    [raw |-> "json", prefix |-> prefix, object |-> TRUE,
     has_response |-> has_response, response_is_text |-> TRUE,
     response |-> response, message |-> message, content |-> content,
     done |-> done]

\* the lines a response body is made of
StreamLines ==
    { Skipped(""), Skipped(" "), Skipped("data: "), Skipped(":"),
      Skipped("undecodable"), Skipped("not json"),
      Skipped("json"),
      Json(FALSE, FALSE, <<>>, "absent", <<>>, FALSE),
      Json(FALSE, FALSE, <<>>, "not a dict", <<>>, FALSE),
      Json(FALSE, TRUE, <<"a", ".">>, "absent", <<>>, FALSE),
      Json(TRUE, FALSE, <<>>, "dict", <<" ", "b", ".">>, FALSE),
      Json(FALSE, TRUE, <<>>, "dict", <<"x">>, FALSE),
      Json(FALSE, TRUE, <<"User:">>, "absent", <<>>, FALSE),
      Json(FALSE, TRUE, <<" ">>, "absent", <<>>, FALSE),
      Json(TRUE, FALSE, <<>>, "dict", <<"\n">>, FALSE),
      Json(FALSE, TRUE, <<"c">>, "absent", <<>>, TRUE),
      Json(FALSE, FALSE, <<>>, "dict", <<>>, TRUE),
      [Json(FALSE, TRUE, <<>>, "absent", <<>>, TRUE)
          EXCEPT !.response_is_text = FALSE] }

\* the response bodies explored: up to MaxLines lines
Streams == UNION {[1..n -> StreamLines] : n \in 0..MaxLines}

\* (False, None); on_message tests only the truth value of the text, so
\* None is written as the empty text
Failed == [success |-> FALSE, ai_response |-> <<>>]

\* the locals of try_ollama_request when requests.post is called (line 479)
Call(lines) ==
    [pc |-> "post", lines |-> lines, line_count |-> 0, full_reply |-> <<>>,
     received_data |-> FALSE, success |-> FALSE, ai_response |-> <<>>,
     exit |-> "none", display |-> <<>>]

\* one pass of the loop body as ProcessLine, breaking before the token of
\* the done record is added
ProcessLine_doneFirst(l, line) ==
    LET n == [l EXCEPT !.line_count = @ + 1]
    IN IF line.raw # "json" \/ ~line.object
       THEN n
       ELSE IF line.has_response /\ ~line.response_is_text
            THEN [n EXCEPT !.received_data = TRUE]
            ELSE LET token == IF line.has_response THEN line.response
                              ELSE IF line.message = "dict" THEN line.content
                              ELSE <<>>
                 IN IF line.done
                    THEN [n EXCEPT !.pc = "after loop"]
                    ELSE [n EXCEPT
                            !.received_data = @ \/ token # <<>>,
                            !.full_reply = @ \o token]

\* one pass of the loop body as ProcessLine, taking message.content even
\* when the record has a response field
ProcessLine_contentFirst(l, line) ==
    LET n == [l EXCEPT !.line_count = @ + 1]
    IN IF line.raw # "json" \/ ~line.object
       THEN n
       ELSE IF line.has_response /\ ~line.response_is_text
            THEN [n EXCEPT !.received_data = TRUE]
            ELSE LET token == IF line.message = "dict" THEN line.content
                              ELSE IF line.has_response THEN line.response
                              ELSE <<>>
                 IN [n EXCEPT
                       !.received_data = @ \/ token # <<>>,
                       !.full_reply = @ \o token,
                       !.pc = IF line.done THEN "after loop" ELSE @]

\* one pass of the body of the loop of lines 498-543 over the line `line`.
\* An empty line fails `if line:`; a blank line, "data: " and ":" continue at
\* line 502; a line that does not decode, and a JSON value that is no object,
\* end in the except of line 540; a line that is no JSON continues at 513.
\* A token that is no text sets received_data and then raises at line 524,
\* before the test of done.  Otherwise the token is added (lines 516-524)
\* and the loop breaks when the record has done (lines 536-538).
ProcessLine(l, line) ==
    LET n == [l EXCEPT !.line_count = @ + 1]
    IN IF line.raw # "json" \/ ~line.object
       THEN n
       ELSE IF line.has_response /\ ~line.response_is_text
            THEN [n EXCEPT !.received_data = TRUE]
            ELSE LET token == IF line.has_response THEN line.response
                              ELSE IF line.message = "dict" THEN line.content
                              ELSE <<>>
                 IN [n EXCEPT
                       !.received_data = @ \/ token # <<>>,
                       !.full_reply = @ \o token,
                       !.pc = IF line.done THEN "after loop" ELSE @]

\* lines 548-561: what is returned after the loop; exit names the return
\* statement taken
AfterLoop(l) ==
    IF ~l.received_data
    THEN [l EXCEPT !.pc = "returned", !.exit = "no tokens"]
    ELSE LET clean == clean_reply(l.full_reply)
         IN IF clean = <<>>
            THEN [l EXCEPT !.pc = "returned", !.exit = "empty after cleaning"]
            ELSE [l EXCEPT !.pc = "returned", !.exit = "ok",
                           !.success = TRUE, !.ai_response = clean]

\* the excepts of lines 563-571
Raised(l) == [l EXCEPT !.pc = "returned", !.exit = "except"]

\* requests.post returns a response with this status (lines 479-492)
Post(status_code) ==
    /\ ollama.pc = "post"
    /\ ollama' = IF status_code # 200
                 THEN [ollama EXCEPT !.pc = "returned", !.exit = "status"]
                 ELSE [ollama EXCEPT !.pc = "lines"]
    /\ UNCHANGED <<ledgerVars, botVars, watchdog, leaderboard>>

\* requests.post raises Timeout or another RequestException
PostRaises ==
    /\ ollama.pc = "post"
    /\ ollama' = Raised(ollama)
    /\ UNCHANGED <<ledgerVars, botVars, watchdog, leaderboard>>

\* iter_lines gives the next line
IterLine ==
    /\ ollama.pc = "lines"
    /\ ollama.line_count < Len(ollama.lines)
    /\ ollama' = ProcessLine(ollama, ollama.lines[ollama.line_count + 1])
    /\ UNCHANGED <<ledgerVars, botVars, watchdog, leaderboard>>

\* iter_lines raises: the connection broke or timed out in the stream
IterRaises ==
    /\ ollama.pc = "lines"
    /\ ollama' = Raised(ollama)
    /\ UNCHANGED <<ledgerVars, botVars, watchdog, leaderboard>>

\* the stream ended or the loop broke
EndOfLoop ==
    /\ \/ ollama.pc = "after loop"
       \/ ollama.pc = "lines" /\ ollama.line_count = Len(ollama.lines)
    /\ ollama' = AfterLoop(ollama)
    /\ UNCHANGED <<ledgerVars, botVars, watchdog, leaderboard>>

\* on_message cuts the reply it got (lines 412, 427-433)
Display ==
    /\ ollama.pc = "returned"
    /\ ollama.success /\ ollama.ai_response # <<>>
    /\ ollama' = [ollama EXCEPT !.pc = "displayed",
                                !.display = TwoSentences(ollama.ai_response)]
    /\ UNCHANGED <<ledgerVars, botVars, watchdog, leaderboard>>

StreamInit ==
    /\ ollama \in {Call(lines) : lines \in Streams}
    /\ data = EmptyDict
    /\ file = NoFile
    /\ ret = NoCall
    /\ save_failures = 0
    /\ conversation_history = EmptyDict
    /\ user_preferences = EmptyDict
    /\ MAX_CONTEXT_LENGTH = 1
    /\ task = <<>>
    /\ last_trim = NoTrim
    /\ watchdog = "not started"
    /\ leaderboard = NoLeaderboard

StreamNext ==
    \/ \E status_code \in {200, 500} : Post(status_code)
    \/ PostRaises
    \/ IterLine
    \/ IterRaises
    \/ EndOfLoop
    \/ Display

\* one call of try_ollama_request on any response, and the cut of its reply
StreamSpec == StreamInit /\ [][StreamNext]_vars

\* What the backend answers to one request: error is "Timeout" or
\* "ConnectionError" when requests.post raises, "broken stream" when
\* iter_lines raises after the lines, "none" otherwise.
Response(error, status_code, lines) ==
    [error |-> error, status_code |-> status_code, lines |-> lines]

NoResponse == Response("none", 0, <<>>)

\* the answers of the backend explored in Spec: requests.post raises, a
\* status that is not 200, a stream that breaks after a token, a stream
\* without a token, a stream whose text is a label and a blank, and two
\* streams with a reply ("a." and "a. b.c", the second among lines that are
\* skipped and with a line after its done record)
BackendResponses ==
    { Response("Timeout", 0, <<>>),
      Response("ConnectionError", 0, <<>>),
      Response("none", 500, <<>>),
      Response("broken stream", 200,
               <<Json(FALSE, FALSE, <<>>, "dict", <<"x">>, FALSE)>>),
      Response("none", 200,
               <<Skipped(""), Json(FALSE, FALSE, <<>>, "dict", <<>>, TRUE)>>),
      Response("none", 200,
               <<Json(FALSE, TRUE, <<"User:">>, "absent", <<>>, FALSE),
                 Json(FALSE, TRUE, <<" ">>, "absent", <<>>, TRUE)>>),
      Response("none", 200,
               <<Json(FALSE, TRUE, <<"a", ".">>, "absent", <<>>, FALSE),
                 Json(FALSE, FALSE, <<>>, "dict", <<>>, TRUE)>>),
      Response("none", 200,
               <<Json(FALSE, TRUE, <<"a", ".">>, "absent", <<>>, FALSE),
                 Skipped("not json"),
                 Json(TRUE, FALSE, <<>>, "dict", <<" ", "b", ".">>, FALSE),
                 Json(FALSE, TRUE, <<"c">>, "absent", <<>>, TRUE),
                 Json(FALSE, TRUE, <<"a", ".">>, "absent", <<>>, FALSE)>>) }

RECURSIVE ReadLines(_)
\* the loop of lines 498-543 over the lines that are left
ReadLines(l) ==
    IF l.pc = "lines" /\ l.line_count < Len(l.lines)
    THEN ReadLines(ProcessLine(l, l.lines[l.line_count + 1]))
    ELSE l

\* try_ollama_request as below, but returning what it has read when the
\* stream breaks
try_ollama_request_partial(response) ==
    IF response.error \in {"Timeout", "ConnectionError"}
    THEN Raised(Call(response.lines))
    ELSE IF response.status_code # 200
    THEN [Call(response.lines) EXCEPT !.pc = "returned", !.exit = "status"]
    ELSE AfterLoop(ReadLines([Call(response.lines) EXCEPT !.pc = "lines"]))

\* try_ollama_request on one answer of the backend, start to return: the
\* locals at its return, success and ai_response among them.  It awaits
\* nothing: requests.post and iter_lines block the thread.
try_ollama_request(response) ==
    IF response.error \in {"Timeout", "ConnectionError"}
    THEN Raised(Call(response.lines))
    ELSE IF response.status_code # 200
    THEN [Call(response.lines) EXCEPT !.pc = "returned", !.exit = "status"]
    ELSE LET l == ReadLines([Call(response.lines) EXCEPT !.pc = "lines"])
         IN IF l.pc = "lines" /\ response.error = "broken stream"
            THEN Raised(l)
            ELSE AfterLoop(l)

\* the command tests of lines 264-336
IsClear(prompt) ==
    prompt \in {<<"/clear">>, <<"!clear">>, <<"/reset">>, <<"!reset">>}
IsListRoles(prompt) == prompt \in {<<"/listroles">>, <<"!listroles">>}
IsSetRole(prompt) == Len(prompt) >= 2 /\ prompt[1] \in {"/setrole", "!setrole"}
IsGifOn(prompt) == prompt \in {<<"/gif", "on">>, <<"!gif", "on">>}
IsGifOff(prompt) == prompt \in {<<"/gif", "off">>, <<"!gif", "off">>}
IsGif(prompt) == prompt \in {<<"/gif">>, <<"!gif">>}

\* prompt.split(None, 1)[1]: what follows the command word; a name of
\* several words is the name of no role
SetRoleName(prompt) == IF Len(prompt) = 2 THEN prompt[2] ELSE None

\* s[i:] of a Python list
PySliceFrom(s, i) ==
    LET start == IF i < 0
                 THEN (IF Len(s) + i < 0 THEN 0 ELSE Len(s) + i)
                 ELSE (IF i > Len(s) THEN Len(s) ELSE i)
    IN SubSeq(s, start + 1, Len(s))

\* history[:limit], the oldest turns
KeepLast_first(history, limit) ==
    SubSeq(history, 1, IF limit > Len(history) THEN Len(history) ELSE limit)

\* history[-limit:]
KeepLast(history, limit) == PySliceFrom(history, 0 - limit)

\* a dict without a key (del d[k])
Del(d, k) == [x \in DOMAIN d \ {k} |-> d[x]]

\* a dict with d[k] = v
Put(d, k, v) == [x \in DOMAIN d \cup {k} |-> IF x = k THEN v ELSE d[x]]

\* d.get(k, default)
Get(d, k, default) == IF k \in DOMAIN d THEN d[k] ELSE default

\* a turn of the history; msg names the message whose handler wrote it
Turn(role, content, msg) == [role |-> role, content |-> content, msg |-> msg]

\* the state the handlers share: both dicts and the record of the last trim
Shared == [ch |-> conversation_history, up |-> user_preferences,
           trim |-> last_trim]

\* append turns to a user's history and trim it to limit (lines 349-354 and
\* 417-425)
AppendAndTrim(s, user_id, turns, limit) ==
    LET untrimmed == Get(s.ch, user_id, <<>>) \o turns
    IN IF Len(untrimmed) > limit
       THEN [s EXCEPT !.ch = Put(s.ch, user_id, KeepLast(untrimmed, limit)),
                      !.trim = [untrimmed |-> untrimmed,
                                retained |-> KeepLast(untrimmed, limit),
                                limit |-> limit]]
       ELSE [s EXCEPT !.ch = Put(s.ch, user_id, untrimmed)]

\* /clear (lines 264-282)
ClearCommand(s, user_id) ==
    [s EXCEPT !.ch = Del(s.ch, user_id), !.up = Del(s.up, user_id)]

\* /setrole storing the name whether or not it is a loaded role
SetRoleCommand_anyName(s, user_id, role_name) ==
    [s EXCEPT !.up = Put(s.up, user_id,
                         Put(Get(s.up, user_id, EmptyDict),
                             "current_role", role_name)),
              !.ch = Del(s.ch, user_id)]

\* /setrole without the clearing of the history
SetRoleCommand_keepHistory(s, user_id, role_name) ==
    IF role_name \in DOMAIN BOT_ROLES
    THEN [s EXCEPT !.up = Put(s.up, user_id,
                              Put(Get(s.up, user_id, EmptyDict),
                                  "current_role", role_name))]
    ELSE s

\* /setrole (lines 300-319)
SetRoleCommand(s, user_id, role_name) ==
    IF role_name \in DOMAIN BOT_ROLES
    THEN [s EXCEPT !.up = Put(s.up, user_id,
                              Put(Get(s.up, user_id, EmptyDict),
                                  "current_role", role_name)),
                   !.ch = Del(s.ch, user_id)]
    ELSE s

\* /gif on, /gif off (lines 322-334)
GifCommand(s, user_id, enabled) ==
    [s EXCEPT !.up = Put(s.up, user_id,
                         Put(Get(s.up, user_id, EmptyDict),
                             "gifs_enabled", enabled))]

\* the record of a coroutine that has returned: its locals are gone
\* (ai_response is the text the handler is about to send as its reply)
Returned_task ==
    [user_id |-> 0, prompt |-> <<>>, pc |-> "done", sends |-> 0,
     outcome |-> None, before |-> <<>>, alone |-> TRUE,
     messages_payload |-> <<>>, response |-> NoResponse,
     ai_response |-> <<>>]

\* lines 252-354 of on_message, which run without an await: the empty
\* message, the commands, and the user turn of a regular message.
\* Gives the task's record and the shared state after them.
Dispatch(t, i, s, limit) ==
    LET reply(s2) == [task |-> [t EXCEPT !.pc = "reply", !.outcome = "command"],
                      shared |-> s2]
    IN CASE t.prompt = <<>> -> [task |-> Returned_task, shared |-> s]
         [] IsClear(t.prompt) -> reply(ClearCommand(s, t.user_id))
         [] IsListRoles(t.prompt) -> reply(s)
         [] IsSetRole(t.prompt) ->
                reply(SetRoleCommand(s, t.user_id, SetRoleName(t.prompt)))
         [] IsGifOn(t.prompt) -> reply(GifCommand(s, t.user_id, TRUE))
         [] IsGifOff(t.prompt) -> reply(GifCommand(s, t.user_id, FALSE))
         [] IsGif(t.prompt) -> reply(s)
         [] OTHER ->
                [task |-> [t EXCEPT !.pc = "typing"],
                 shared |-> AppendAndTrim(s, t.user_id,
                                <<Turn("user", t.prompt, i)>>, limit)]

\* HandleResponse without the cut of lines 427-433
HandleResponse_noCut(t, i, s, r, limit) ==
    IF r.success /\ r.ai_response # <<>>
    THEN [task |-> [t EXCEPT !.pc = "reply", !.outcome = "delivered",
                             !.ai_response = r.ai_response],
          shared |-> AppendAndTrim(s, t.user_id,
                        <<Turn("user", t.prompt, i),
                          Turn("assistant", r.ai_response, i)>>, 2 * limit)]
    ELSE IF ~r.success
    THEN [task |-> [t EXCEPT !.pc = "reply", !.outcome = "failed"],
          shared |-> s]
    ELSE [task |-> [t EXCEPT !.pc = "reply", !.outcome = "empty_response"],
          shared |-> s]

\* lines 412-455: what the handler does with the result of
\* try_ollama_request, up to the await of the reply or of the apology
HandleResponse(t, i, s, r, limit) ==
    IF r.success /\ r.ai_response # <<>>
    THEN [task |-> [t EXCEPT !.pc = "reply", !.outcome = "delivered",
                             !.ai_response = TwoSentences(r.ai_response)],
          shared |-> AppendAndTrim(s, t.user_id,
                        <<Turn("user", t.prompt, i),
                          Turn("assistant", r.ai_response, i)>>, 2 * limit)]
    ELSE IF ~r.success
    THEN [task |-> [t EXCEPT !.pc = "reply", !.outcome = "failed"],
          shared |-> s]
    ELSE [task |-> [t EXCEPT !.pc = "reply", !.outcome = "empty_response"],
          shared |-> s]

\* lines 366-389: the system prompt of the user's role, of the default
\* role when the user's role is not loaded; every loaded role has a prompt
system_prompt_to_use(s, user_id) ==
    LET selected_role_name ==
            Get(Get(s.up, user_id, EmptyDict), "current_role",
                CURRENT_DEFAULT_ROLE)
    IN IF selected_role_name \in DOMAIN BOT_ROLES
       THEN BOT_ROLES[selected_role_name].system_prompt
       ELSE BOT_ROLES[CURRENT_DEFAULT_ROLE].system_prompt

\* lines 392-402: the messages of the request
messages_payload(t, i, s) ==
    <<Turn("system", system_prompt_to_use(s, t.user_id), 0),
      Turn("user", t.prompt, i)>> \o Get(s.ch, t.user_id, <<>>)

\* a handler is inside requests.post or iter_lines: the thread of the event
\* loop is blocked and no coroutine runs
Blocked == \E j \in DOMAIN task : task[j].pc = "blocked"

\* the shared state after a step of a handler
SetShared(s) ==
    /\ conversation_history' = s.ch
    /\ user_preferences' = s.up
    /\ last_trim' = s.trim

\* a coroutine that has not returned and handles a message of user_id
InFlightFor(t, user_id) == t.pc # "done" /\ t.user_id = user_id

\* A message of a user in the target channel arrives: lines 239-250 award
\* the xp; without a level-up nothing is awaited and the handler runs on to
\* the first await after line 252.
Receive(user_id, content) ==
    /\ ~Blocked
    /\ Len(task) < MaxMessages
    /\ LET r == add_xp(data, user_id, 10, utcnow(data, user_id))
           i == Len(task) + 1
           sends == (IF r.leveled_up THEN 1 ELSE 0) + Len(r.new_badges)
           t == [user_id |-> user_id, prompt |-> content, pc |-> "announce",
                 sends |-> sends, outcome |-> None,
                 before |-> Get(conversation_history, user_id, <<>>),
                 alone |-> \A j \in DOMAIN task : ~InFlightFor(task[j], user_id),
                 messages_payload |-> <<>>, response |-> NoResponse,
     ai_response |-> <<>>]
           others == [j \in DOMAIN task |->
                        IF InFlightFor(task[j], user_id)
                        THEN [task[j] EXCEPT !.alone = FALSE] ELSE task[j]]
           d == Dispatch(t, i, Shared, MAX_CONTEXT_LENGTH)
       IN /\ data' = r.data
          /\ file' = Saved(r.data)
          /\ ret' = Returned(user_id, 10, r)
          /\ save_failures' = save_failures
          /\ IF sends > 0
             THEN /\ task' = Append(others, t)
                  /\ UNCHANGED <<conversation_history, user_preferences,
                                 last_trim>>
             ELSE /\ task' = Append(others, d.task)
                  /\ SetShared(d.shared)
    /\ UNCHANGED <<MAX_CONTEXT_LENGTH, sideVars>>

\* A message arrives and save_data raises in the add_xp of line 246: the
\* exception leaves on_message, which has sent nothing; the ledger in
\* memory has the xp.  The record keeps what the message was.
ReceiveSaveFails(user_id, content) ==
    /\ ~Blocked
    /\ Len(task) < MaxMessages
    /\ save_failures < MaxSaveFailures
    /\ data' = add_xp(data, user_id, 10, utcnow(data, user_id)).data
    /\ ret' = NoCall
    /\ save_failures' = save_failures + 1
    /\ task' = Append(task, [Returned_task EXCEPT !.user_id = user_id,
                                                  !.prompt = content,
                                                  !.outcome = "raised"])
    /\ UNCHANGED <<file, conversation_history, user_preferences, last_trim,
                   MAX_CONTEXT_LENGTH, sideVars>>

\* A message of a bot, or outside the target channel: on_message returns
\* at line 243.
Ignore ==
    /\ ~Blocked
    /\ UNCHANGED vars

\* One of the sends of lines 248 and 250 returns; after the last one the
\* handler runs on to the first await after line 252.
Announce(i) ==
    /\ ~Blocked
    /\ task[i].pc = "announce"
    /\ LET t == [task[i] EXCEPT !.sends = @ - 1]
           d == Dispatch(t, i, Shared, MAX_CONTEXT_LENGTH)
       IN IF t.sends > 0
          THEN /\ task' = [task EXCEPT ![i] = t]
               /\ UNCHANGED <<conversation_history, user_preferences, last_trim>>
          ELSE /\ task' = [task EXCEPT ![i] = d.task]
               /\ SetShared(d.shared)
    /\ UNCHANGED <<ledgerVars, MAX_CONTEXT_LENGTH, sideVars>>

\* The typing indicator of line 357 is entered; the handler builds the
\* request (lines 359-404) and try_ollama_request calls requests.post (line
\* 479), which blocks.  response is what the backend is about to answer.
CallOllama(i, response) ==
    /\ ~Blocked
    /\ task[i].pc = "typing"
    /\ task' = [task EXCEPT ![i] =
                   [@ EXCEPT !.pc = "blocked",
                             !.messages_payload =
                                 messages_payload(task[i], i, Shared),
                             !.response = response]]
    /\ UNCHANGED <<ledgerVars, conversation_history, user_preferences,
                   MAX_CONTEXT_LENGTH, last_trim, sideVars>>

\* requests.post and iter_lines are through: try_ollama_request returns
\* and the handler runs on to the await of its reply (lines 442, 444) or of
\* its apology (lines 450, 454).
Respond(i) ==
    /\ task[i].pc = "blocked"
    /\ LET r == try_ollama_request(task[i].response)
           t == [task[i] EXCEPT !.messages_payload = <<>>,
                                !.response = NoResponse]
           d == HandleResponse(t, i, Shared, r, MAX_CONTEXT_LENGTH)
       IN /\ task' = [task EXCEPT ![i] = d.task]
          /\ SetShared(d.shared)
    /\ UNCHANGED <<ledgerVars, MAX_CONTEXT_LENGTH, sideVars>>

\* The reply or the apology is sent and on_message returns.
Reply(i) ==
    /\ ~Blocked
    /\ task[i].pc = "reply"
    /\ task' = [task EXCEPT ![i] = Returned_task]
    /\ UNCHANGED <<ledgerVars, conversation_history, user_preferences,
                   MAX_CONTEXT_LENGTH, last_trim, sideVars>>

\* a ledger file an earlier run of the bot left: user 1 sent 19 messages
LedgerOf19Messages ==
    ("1" :> [xp |-> 190, level |-> 1, last_message |-> "t1", badges |-> <<>>])

Init ==
    /\ file \in {NoFile, Saved(LedgerOf19Messages)}
    /\ data = load_data(file)
    /\ ret = NoCall
    /\ save_failures = 0
    /\ conversation_history = EmptyDict
    /\ user_preferences = EmptyDict
    /\ MAX_CONTEXT_LENGTH \in 1..MaxWindow
    /\ task = <<>>
    /\ last_trim = NoTrim
    /\ SideInit

Next ==
    \/ \E u \in Users, c \in Contents : Receive(u, c)
    \/ Ignore
    \/ \E i \in DOMAIN task : Announce(i)
    \/ \E i \in DOMAIN task, b \in BackendResponses : CallOllama(i, b)
    \/ \E i \in DOMAIN task : Respond(i)
    \/ \E i \in DOMAIN task : Reply(i)

Spec == Init /\ [][Next]_vars

\* ---- check_inactivity_loop (lines 190-226) ----
\* watchdog is where the coroutine is: "not started", "loop" (the test of
\* the while), "history" (awaiting channel.history), "send" (awaiting
\* channel.send), "stopped" (the client is closed), and three places where
\* it awaits asyncio.sleep(3600): "retry" (line 200, the channel was not
\* found), "caught" (line 226, after the except clause of lines 224-225
\* logged an exception) and "sleep" (line 226, after an iteration without
\* a failure).  It runs on the event loop that runs the handlers, so it
\* takes no step while a handler blocks the thread.

\* the places where the watchdog awaits asyncio.sleep
Sleeps == {"sleep", "retry", "caught"}

\* on_ready creates the task (line 231) and wait_until_ready returns
OnReady ==
    /\ ~Blocked
    /\ watchdog = "not started"
    /\ watchdog' = "loop"
    /\ UNCHANGED <<ledgerVars, botVars, ollama, leaderboard>>

\* lines 194-201: the loop ends when the client is closed; without the
\* channel it sleeps; else it asks for the last message
WatchdogCheck(closed, found) ==
    /\ ~Blocked
    /\ watchdog = "loop"
    /\ watchdog' = IF closed THEN "stopped"
                   ELSE IF found THEN "history" ELSE "retry"
    /\ UNCHANGED <<ledgerVars, botVars, ollama, leaderboard>>

\* channel.history with an exception that leaves the coroutine
WatchdogHistory_uncaught(answer) ==
    /\ ~Blocked
    /\ watchdog = "history"
    /\ watchdog' = IF answer \in {"inactive", "empty"} THEN "send"
                   ELSE IF answer = "raises" THEN "stopped" ELSE "sleep"
    /\ UNCHANGED <<ledgerVars, botVars, ollama, leaderboard>>

\* lines 203-222: channel.history answers; a quiet or an empty channel
\* gets a message, an exception is logged (lines 224-225)
WatchdogHistory(answer) ==
    /\ ~Blocked
    /\ watchdog = "history"
    /\ watchdog' = IF answer \in {"inactive", "empty"} THEN "send"
                   ELSE IF answer = "raises" THEN "caught" ELSE "sleep"
    /\ UNCHANGED <<ledgerVars, botVars, ollama, leaderboard>>

\* channel.send returns (lines 216, 221) or raises (lines 224-225)
WatchdogSent(raised) ==
    /\ ~Blocked
    /\ watchdog = "send"
    /\ watchdog' = IF raised THEN "caught" ELSE "sleep"
    /\ UNCHANGED <<ledgerVars, botVars, ollama, leaderboard>>

\* the sleep of line 200 or 226 is over
WatchdogWake ==
    /\ ~Blocked
    /\ watchdog \in Sleeps
    /\ watchdog' = "loop"
    /\ UNCHANGED <<ledgerVars, botVars, ollama, leaderboard>>

\* a step of check_inactivity_loop
WatchdogStep ==
    \/ \E closed \in BOOLEAN, found \in BOOLEAN : WatchdogCheck(closed, found)
    \/ \E answer \in {"active", "inactive", "empty", "raises"} :
          WatchdogHistory(answer)
    \/ \E raised \in BOOLEAN : WatchdogSent(raised)
    \/ WatchdogWake

\* the handlers and the watchdog on one event loop
LoopNext ==
    \/ Next
    \/ OnReady
    \/ WatchdogStep

LoopSpec == Init /\ [][LoopNext]_vars

\* the event loop runs every coroutine that is ready: a sleep, a call of
\* Discord and a call of the backend (requests has timeout=120) end, so
\* the watchdog and a blocking handler take their next step
LoopFairness ==
    /\ WF_vars(WatchdogStep)
    /\ WF_vars(\E i \in DOMAIN task : Respond(i))

\* what a backend that is down answers: requests.post raises (lines
\* 560-567) or the status is not 200 (lines 483-484)
WatchResponses ==
    { Response("Timeout", 0, <<>>),
      Response("ConnectionError", 0, <<>>),
      Response("none", 500, <<>>) }

\* the watchdog beside the handlers of regular messages, the backend down
WatchNext ==
    \/ \E u \in Users : Receive(u, <<"hello">>)
    \/ \E i \in DOMAIN task : Announce(i)
    \/ \E i \in DOMAIN task, b \in WatchResponses : CallOllama(i, b)
    \/ \E i \in DOMAIN task : Respond(i)
    \/ \E i \in DOMAIN task : Reply(i)
    \/ OnReady
    \/ WatchdogStep

WatchSpec == Init /\ [][WatchNext]_vars /\ LoopFairness

\* the bot on a disk that can fail
FaultNext ==
    \/ Next
    \/ \E u \in Users, c \in Contents : ReceiveSaveFails(u, c)

FaultSpec == Init /\ [][FaultNext]_vars

-----------------------------------------------------------------------------
(* Claims about the message handler, checked under Spec *)

\* the history GetOrCreate gives for a user: empty when the dict has no entry
HistoryOf(ch, user_id) == Get(ch, user_id, <<>>)

\* task i returns in this step: its reply or apology has been sent
Returns(i) == task[i].pc = "reply" /\ task'[i].pc = "done"

\* C1: when the inference call for a message fails, the user's history
\* after the handler has returned is what it was when the message arrived
\* (no other handler for the same user having run meanwhile).
C1_FailedCallLeavesHistory ==
    [][\A i \in DOMAIN task :
         (Returns(i) /\ task[i].outcome = "failed" /\ task[i].alone)
            => HistoryOf(conversation_history', task[i].user_id)
                   = task[i].before]_vars

\* C2: a message handled alone, with no trim triggered, whose inference
\* call succeeds leaves the history it found followed by exactly two turns,
\* the user turn and then the assistant turn.
C2_SuccessAppendsTwoTurns ==
    [][\A i \in DOMAIN task :
         (/\ Returns(i) /\ task[i].outcome = "delivered" /\ task[i].alone
          /\ Len(task[i].before) + 2 <= MAX_CONTEXT_LENGTH
          /\ last_trim' = NoTrim)
            => LET h == HistoryOf(conversation_history', task[i].user_id)
                   n == Len(task[i].before)
               IN /\ Len(h) = n + 2
                  /\ SubSeq(h, 1, n) = task[i].before
                  /\ h[n + 1].role = "user" /\ h[n + 1].content = task[i].prompt
                  /\ h[n + 2].role = "assistant"]_vars

\* C3: in every user's history the turns written by one handler are
\* contiguous: no turn of another handler lies between two of them.
C3_AppendsNotInterleaved ==
    \A u \in DOMAIN conversation_history :
        LET h == conversation_history[u]
        IN \A a, b, c \in DOMAIN h :
              (a < b /\ b < c /\ h[a].msg = h[c].msg) => h[b].msg = h[a].msg

\* C4: every user's history holds at most MAX_CONTEXT_LENGTH turns (each
\* append and its trim are one step, so every state follows a completed
\* append).
C4_HistoryWithinWindow ==
    \A u \in DOMAIN conversation_history :
        Len(conversation_history[u]) <= MAX_CONTEXT_LENGTH

\* C5: what a trim retains is the suffix of the untrimmed history, the
\* most recent turns in their order, as many as the limit of that trim.
C5_TrimKeepsMostRecent ==
    last_trim # NoTrim =>
        LET u == last_trim.untrimmed
            r == last_trim.retained
        IN /\ Len(r) = last_trim.limit
           /\ Len(r) < Len(u)
           /\ \A k \in 1..Len(r) : r[k] = u[Len(u) - Len(r) + k]

\* a trim that dropped two turns and kept two different ones
C5_Witness ==
    /\ last_trim # NoTrim
    /\ Len(last_trim.untrimmed) >= Len(last_trim.retained) + 2
    /\ Len(last_trim.retained) >= 2
    /\ last_trim.retained[1] # last_trim.retained[2]
    /\ last_trim.untrimmed[1] # last_trim.retained[1]

\* task i is a /setrole naming a loaded role that has just acted
ValidSetRole(t) ==
    IsSetRole(t.prompt) /\ SetRoleName(t.prompt) \in DOMAIN BOT_ROLES

\* C6: the step in which a /setrole naming a role of BOT_ROLES acts leaves
\* that role as the user's current_role and the user's history empty.
C6_SetRoleClearsHistory ==
    [][\A i \in DOMAIN task' :
         (/\ task'[i].pc = "reply" /\ ValidSetRole(task'[i])
          /\ (i \in DOMAIN task => task[i].pc = "announce"))
            => LET u == task'[i].user_id
               IN /\ u \in DOMAIN user_preferences'
                  /\ "current_role" \in DOMAIN user_preferences'[u]
                  /\ user_preferences'[u]["current_role"]
                         = SetRoleName(task'[i].prompt)
                  /\ HistoryOf(conversation_history', u) = <<>>]_vars

\* a /setrole of a user whose history held turns has acted
C6_Witness ==
    \E i \in DOMAIN task :
        /\ task[i].pc = "reply" /\ ValidSetRole(task[i]) /\ task[i].alone
        /\ Len(task[i].before) >= 2
        /\ task[i].user_id \notin DOMAIN conversation_history
        /\ user_preferences[task[i].user_id]["current_role"]
               = SetRoleName(task[i].prompt)

-----------------------------------------------------------------------------
(* Claims about the ledger, checked under LedgerSpec *)

\* C11: when save_data fails in add_xp the error reaches the caller and the
\* ledger in memory keeps no part of the call's change.
C11_FailedSaveLeavesLedger ==
    [][save_failures' > save_failures => ret' = NoCall /\ data' = data]_vars

\* this step is a call of add_xp that returned (every call changes what it
\* returns: the xp returned grows)
AddXpStep == ret' # ret /\ save_failures' = save_failures

\* the ledger entry add_xp starts from: the stored one, or a new user's
EntryOf(d, user_id) == Get(d, ToString(user_id), NewUser)

\* C7: over add_xp calls with positive amounts and no reset in between, a
\* user's xp and level never decrease.
C7_XpAndLevelNonDecreasing ==
    [][\A k \in DOMAIN data \cap DOMAIN data' :
          data'[k].xp >= data[k].xp /\ data'[k].level >= data[k].level]_vars

\* a user's second call of add_xp has raised xp and level
C7_Witness ==
    /\ ret.user_id \in Users
    /\ ret.xp > ret.amount
    /\ ret.leveled_up
    /\ EntryOf(data, ret.user_id).xp = ret.xp
    /\ EntryOf(data, ret.user_id).level = ret.level

\* the spec's ExperienceRequiredFor(level)
ExperienceRequiredFor(level) ==
    IF level <= 5 THEN 100 * level ELSE 100 * level * level

\* levels far above any the bounds let a user reach
Levels == 1..12

RECURSIVE SumOfThresholds(_)
\* ExperienceRequiredFor(2) + ... + ExperienceRequiredFor(level)
SumOfThresholds(level) ==
    IF level < 2 THEN 0
    ELSE SumOfThresholds(level - 1) + ExperienceRequiredFor(level)

\* the largest element of a non-empty set of numbers
Largest(S) == CHOOSE x \in S : \A y \in S : y <= x

\* C8 as stated: a user's level is the largest L with xp at least the sum
\* of the thresholds of levels 2..L.
C8_LevelFromSummedThresholds ==
    \A k \in DOMAIN data :
        data[k].level
            = Largest({L \in Levels : data[k].xp >= SumOfThresholds(L)})

\* C8 amended: a user's level is the largest L whose own threshold the
\* total xp has reached, level 1 needing none.
C8_LevelFromOwnThreshold ==
    \A k \in DOMAIN data :
        data[k].level
            = Largest({L \in Levels :
                          L = 1 \/ data[k].xp >= ExperienceRequiredFor(L)})

\* a user at level 5 with 1000 xp, and one at level 6
C8_Witness ==
    /\ \E k \in DOMAIN data : data[k].xp = 1000 /\ data[k].level = 5
    /\ \E k \in DOMAIN data : data[k].level = 6

\* the milestone levels, ascending
MilestoneLevels == <<2, 5, 10, 20, 30, 50>>

\* the badges of the milestones in (from, to] that are not held, ascending
RECURSIVE BadgesCrossed(_, _, _, _)
BadgesCrossed(n, from, to, held) ==
    IF n > Len(MilestoneLevels) THEN <<>>
    ELSE LET L == MilestoneLevels[n]
             rest == BadgesCrossed(n + 1, from, to, held)
         IN IF from < L /\ L <= to /\ badge_milestones[L] \notin Range(held)
            THEN <<badge_milestones[L]>> \o rest
            ELSE rest

\* C9: add_xp returns the badges of the milestone levels it crossed that
\* the user did not hold, in ascending level order; a new user granted
\* 1000 xp in one call ends at level 5 with the badges of levels 2 and 5.
C9_BadgesOfLevelsCrossed ==
    [][AddXpStep =>
         LET old == EntryOf(data, ret'.user_id)
         IN /\ ret'.new_badges
                  = BadgesCrossed(1, old.level, ret'.level, old.badges)
            /\ ret'.leveled_up <=> ret'.level > old.level
            /\ (old.xp = 0 /\ old.level = 1 /\ ret'.amount = 1000)
                  => /\ ret'.level = 5
                     /\ ret'.new_badges
                            = <<badge_milestones[2], badge_milestones[5]>>]_vars

\* one call took a new user from level 1 to level 5 and unlocked two badges
C9_Witness ==
    /\ ret.amount = 1000 /\ ret.xp = 1000 /\ ret.level = 5
    /\ Len(ret.new_badges) = 2
    /\ EntryOf(data, ret.user_id).badges = ret.new_badges

\* no badge twice in any user's list
NoBadgeTwice ==
    \A k \in DOMAIN data :
        \A a, b \in DOMAIN data[k].badges :
            data[k].badges[a] = data[k].badges[b] => a = b

\* while a user's entry stays in the ledger, its badge list only grows at
\* the end
BadgesOnlyAppended ==
    \A k \in DOMAIN data \cap DOMAIN data' :
        /\ Len(data'[k].badges) >= Len(data[k].badges)
        /\ SubSeq(data'[k].badges, 1, Len(data[k].badges)) = data[k].badges

\* C10: a user's badge list never holds a badge twice, and between two
\* resets no badge is removed from it.
C10_BadgesUniqueAndAppendOnly ==
    []NoBadgeTwice /\ [][BadgesOnlyAppended]_vars

\* a user who earned the level-2 badge and, in a later call, the level-5 one
C10_Witness ==
    /\ ret.new_badges = <<badge_milestones[5]>>
    /\ EntryOf(data, ret.user_id).badges
           = <<badge_milestones[2], badge_milestones[5]>>

-----------------------------------------------------------------------------
(* Claims about try_ollama_request and the cut of the reply, checked under *)
(* StreamSpec                                                              *)

\* a record of the stream: a JSON object whose token, if it has one, is text
WellFormed(line) ==
    line.raw = "json" /\ line.object
        /\ (line.has_response => line.response_is_text)

\* the token text of a line: the flat response field when the record has
\* one, else the nested message.content; nothing for any other line
TokenText(line) ==
    IF ~WellFormed(line) THEN <<>>
    ELSE IF line.has_response THEN line.response
    ELSE IF line.message = "dict" THEN line.content
    ELSE <<>>

\* the position of the first record with done=true; 0 when there is none
FirstDone(lines) ==
    LET D == {k \in DOMAIN lines : WellFormed(lines[k]) /\ lines[k].done}
    IN IF D = {} THEN 0 ELSE CHOOSE k \in D : \A j \in D : k <= j

RECURSIVE Concatenation(_, _)
\* the token texts of the first k lines, in arrival order
Concatenation(lines, k) ==
    IF k = 0 THEN <<>>
    ELSE Concatenation(lines, k - 1) \o TokenText(lines[k])

\* try_ollama_request came to the end of a status-200 stream
StreamCompleted ==
    /\ ollama.pc \in {"returned", "displayed"}
    /\ ollama.exit \in {"no tokens", "empty after cleaning", "ok"}

\* C12: for a status-200 stream the raw reply is the concatenation, in
\* arrival order, of the token text of the well-formed records up to and
\* including the first record with done=true; blank lines, keep-alive
\* markers, malformed records and records of unrecognized shape add nothing
\* and do not end the stream.
C12_RawReplyIsConcatenation ==
    StreamCompleted =>
        LET k == FirstDone(ollama.lines)
            last == IF k = 0 THEN Len(ollama.lines) ELSE k
        IN /\ ollama.line_count = last
           /\ ollama.full_reply = Concatenation(ollama.lines, last)

\* a stream of a token, a line that is skipped and a second token was read
\* to its end
C12_Witness ==
    /\ StreamCompleted
    /\ Len(ollama.lines) = 3
    /\ TokenText(ollama.lines[1]) # <<>>
    /\ ~WellFormed(ollama.lines[2])
    /\ TokenText(ollama.lines[3]) # <<>>
    /\ ollama.full_reply
          = TokenText(ollama.lines[1]) \o TokenText(ollama.lines[3])

\* C13: once a record with done=true has been processed no later line of
\* the stream is consumed, so tokens after it are not in the reply; the
\* token of the done record itself is.
C13_NothingConsumedAfterDone ==
    LET k == FirstDone(ollama.lines)
    IN (ollama.pc # "none" /\ k # 0) =>
          /\ ollama.line_count <= k
          /\ ollama.line_count = k =>
                LET tok == TokenText(ollama.lines[k])
                    n == Len(ollama.full_reply)
                IN /\ ollama.pc # "lines"
                   /\ n >= Len(tok)
                   /\ SubSeq(ollama.full_reply, n - Len(tok) + 1, n) = tok

\* the second line was a done record with a token, a third line with a
\* token followed it, and the call returned
C13_Witness ==
    /\ StreamCompleted
    /\ Len(ollama.lines) = 3
    /\ FirstDone(ollama.lines) = 2
    /\ TokenText(ollama.lines[2]) # <<>>
    /\ TokenText(ollama.lines[3]) # <<>>
    /\ ollama.line_count = 2
    /\ ollama.full_reply
          = TokenText(ollama.lines[1]) \o TokenText(ollama.lines[2])

\* the positions of the periods of a text
Periods(t) == {i \in DOMAIN t : t[i] = "."}

\* C19: the display text is the prefix of the cleaned reply through its
\* second period when the reply has two or more periods, and the whole
\* reply when it has fewer.
C19_DisplayIsTwoSentences ==
    ollama.pc = "displayed" =>
        LET r == ollama.ai_response
            d == ollama.display
        IN IF Cardinality(Periods(r)) >= 2
           THEN /\ Len(d) <= Len(r)
                /\ d = SubSeq(r, 1, Len(d))
                /\ d[Len(d)] = "."
                /\ Cardinality(Periods(d)) = 2
           ELSE d = r

\* a reply with text after its second period was cut there
C19_Witness ==
    /\ ollama.pc = "displayed"
    /\ Cardinality(Periods(ollama.ai_response)) >= 2
    /\ Len(ollama.display) < Len(ollama.ai_response)
    /\ ollama.display[Len(ollama.display)] = "."

-----------------------------------------------------------------------------
(* Claims about the handler and the backend, checked under Spec and, with *)
(* a disk that can fail, under FaultSpec                                  *)

\* the raw reply of an answer whose stream is read to its end
RawReply(b) ==
    LET k == FirstDone(b.lines)
    IN Concatenation(b.lines, IF k = 0 THEN Len(b.lines) ELSE k)

\* the backend answered with status 200 and its stream was read to its end
\* or to its done record
Completed(b) ==
    /\ b.error \in {"none", "broken stream"}
    /\ b.status_code = 200
    /\ b.error = "broken stream" => FirstDone(b.lines) # 0

\* the handler of message i gets the result of its call in this step
GetsResult(i) == task[i].pc = "blocked" /\ task'[i].pc = "reply"

\* C14: a stream that ends without a token, and a reply that cleaning
\* leaves empty, take the handler to the empty-response outcome; a status
\* that is not 200, a timeout and a connection failure take it to the
\* backend-failed outcome.
C14_EmptyResponseOutcome ==
    [][\A i \in DOMAIN task :
         GetsResult(i) =>
            LET b == task[i].response
            IN /\ (Completed(b) /\ clean_reply(RawReply(b)) = <<>>)
                     => task'[i].outcome = "empty_response"
               /\ ~Completed(b) => task'[i].outcome = "failed"]_vars

\* this step puts the turn into the history of user_id
NewTurn(user_id, turn) ==
    /\ turn \in Range(HistoryOf(conversation_history', user_id))
    /\ turn \notin Range(HistoryOf(conversation_history, user_id))

\* C17: every assistant turn of a history is the non-empty cleaned reply of
\* a call that completed with success; a call that times out or breaks in
\* the stream puts no assistant turn into the history.
C17_AssistantTurnsAreCleanedReplies ==
    [][\A u \in Users :
         \A turn \in Range(HistoryOf(conversation_history', u)) :
            (turn.role = "assistant" /\ NewTurn(u, turn)) =>
                /\ turn.msg \in DOMAIN task
                /\ GetsResult(turn.msg)
                /\ task[turn.msg].user_id = u
                /\ Completed(task[turn.msg].response)
                /\ turn.content # <<>>
                /\ turn.content
                      = clean_reply(RawReply(task[turn.msg].response))]_vars

\* a history holds the reply "a." of a user's earlier message while the
\* call for a later message of that user is answered by a stream that
\* breaks after a token
C17_Witness ==
    \E i \in DOMAIN task :
        /\ task[i].pc = "blocked"
        /\ task[i].response.error = "broken stream"
        /\ RawReply(task[i].response) # <<>>
        /\ \E turn \in Range(HistoryOf(conversation_history, task[i].user_id)) :
              turn.role = "assistant" /\ turn.content = <<"a", ".">>

\* the entries of a request with a role
WithRole(payload, role) == SelectSeq(payload, LAMBDA m : m.role = role)

\* C20: the request built for a message is one system entry, first in the
\* list, with the prompt of the user's persona; the text of the message
\* once; and the turns the history held when the message arrived (no other
\* handler for the same user having run meanwhile).  No turn of a history
\* has the role system.
C20_RequestBuiltFromHistory ==
    /\ \A i \in DOMAIN task :
          (task[i].pc = "blocked" /\ task[i].alone) =>
             LET payload == task[i].messages_payload
                 latest == Turn("user", task[i].prompt, i)
             IN /\ payload[1].role = "system"
                /\ payload[1].content
                      = system_prompt_to_use(Shared, task[i].user_id)
                /\ Len(WithRole(payload, "system")) = 1
                /\ Len(SelectSeq(payload,
                                 LAMBDA m : m.role = "user"
                                            /\ m.content = task[i].prompt
                                            /\ m.msg = i)) = 1
                /\ SelectSeq(Tail(payload), LAMBDA m : m # latest)
                      = task[i].before
    /\ \A u \in Users :
          WithRole(HistoryOf(conversation_history, u), "system") = <<>>

\* a message with text that is no command
IsRegular(prompt) ==
    /\ prompt # <<>>
    /\ ~(IsClear(prompt) \/ IsListRoles(prompt) \/ IsSetRole(prompt)
           \/ IsGifOn(prompt) \/ IsGifOff(prompt) \/ IsGif(prompt))

\* the handler of message i ends in this step
Ends(i) ==
    /\ task'[i].pc = "done"
    /\ i \in DOMAIN task => task[i].pc # "done"

\* the handler of message i sends its reply or its apology in this step;
\* on each of its paths it is the only one it sends
Answers(i) == i \in DOMAIN task /\ Returns(i)

\* the text of message i
TextOf(i) == IF i \in DOMAIN task THEN task[i].prompt ELSE task'[i].prompt

\* C15: a message with text that is no command gets exactly one response,
\* the reply or one apology, before its handler ends; a message whose text
\* is empty gets none.
C15_OneResponsePerMessage ==
    [][\A i \in DOMAIN task' :
         Ends(i) => /\ IsRegular(TextOf(i)) => Answers(i)
                    /\ TextOf(i) = <<>> => ~Answers(i)]_vars

-----------------------------------------------------------------------------
(* Claims about the watchdog and the handlers, checked under LoopSpec *)

\* a step of the handler of message j
HandlerStep(j) ==
    \/ Announce(j)
    \/ \E b \in BackendResponses : CallOllama(j, b)
    \/ Respond(j)
    \/ Reply(j)

\* the handler of message j has not returned
InFlight(j) == task[j].pc # "done"

\* the watchdog is started and the client is open
WatchdogRuns == watchdog \in {"loop", "history", "send"} \cup Sleeps

\* C16: the watchdog and the handlers run independently.  While a handler
\* waits for the backend the watchdog and the handlers of other users can
\* take steps; while the watchdog sleeps or waits the handlers can take
\* steps.
C16_WatchdogAndHandlersIndependent ==
    /\ \A i \in DOMAIN task :
          task[i].pc = "blocked" =>
             /\ WatchdogRuns => ENABLED WatchdogStep
             /\ \A j \in DOMAIN task :
                   (InFlight(j) /\ task[j].user_id # task[i].user_id)
                      => ENABLED HandlerStep(j)
    /\ watchdog \in {"history", "send"} \cup Sleeps =>
          \A j \in DOMAIN task :
             (InFlight(j) /\ \A k \in DOMAIN task \ {j} : task[k].pc # "blocked")
                => ENABLED HandlerStep(j)

-----------------------------------------------------------------------------
(* Claims about get_leaderboard, checked under LeaderboardSpec *)

\* C18: get_leaderboard(n) returns at most n entries; they are the n
\* highest-ranked users of the ledger under the order (level descending,
\* then xp descending); and the list is sorted in that order.
C18_LeaderboardIsTopN ==
    leaderboard.called =>
        LET rows == leaderboard.rows
            n == leaderboard.top_n
            listed == {rows[k].user_id : k \in DOMAIN rows}
        IN /\ Len(rows) <= n
           /\ Len(rows) = IF n < Cardinality(DOMAIN data)
                          THEN n ELSE Cardinality(DOMAIN data)
           /\ Cardinality(listed) = Len(rows)
           /\ \A k \in DOMAIN rows :
                 /\ rows[k].user_id \in DOMAIN data
                 /\ rows[k].level = data[rows[k].user_id].level
                 /\ rows[k].xp = data[rows[k].user_id].xp
           /\ \A a, b \in DOMAIN rows : a < b => ~Outranks(rows[b], rows[a])
           /\ \A u \in DOMAIN data \ listed :
                 \A k \in DOMAIN rows : ~Outranks(data[u], rows[k])

\* the top two of three users were asked for; the dict iterates from the
\* lowest-ranked user, who is left out
C18_Witness ==
    /\ leaderboard.called
    /\ leaderboard.top_n = 2
    /\ Cardinality(DOMAIN data) = 3
    /\ Len(leaderboard.rows) = 2
    /\ Outranks(leaderboard.rows[1], leaderboard.rows[2])
    /\ Outranks(leaderboard.rows[2], data[leaderboard.order[1]])

-----------------------------------------------------------------------------
(* Claims about what is stored and what is sent, checked under Spec *)

\* the assistant turn that message i puts into its user's history in this
\* step is `turn`
StoresReply(i, turn) ==
    /\ GetsResult(i)
    /\ task'[i].outcome = "delivered"
    /\ turn.role = "assistant" /\ turn.msg = i
    /\ NewTurn(task[i].user_id, turn)

\* the assistant turns the histories hold after this step
TurnsStored ==
    UNION {Range(HistoryOf(conversation_history', u)) : u \in Users}

-----------------------------------------------------------------------------
(* Further claims about the ledger, checked under Spec (C22) and under *)
(* LedgerSpec (C23, C24)                                                *)

\* C22: the ledger has one writer at a time and no add_xp update is lost
\* under any interleaving of the handlers: every message that arrives adds
\* exactly 10 to its author's xp, whatever the message is and however its
\* call ends, and nothing else changes the ledger, so k messages of a user
\* add 10*k.
C22_NoXpUpdateLost ==
    [][IF Len(task') > Len(task)
       THEN LET key == ToString(ret'.user_id)
            IN /\ ret'.user_id \in Users
               /\ key \in DOMAIN data'
               /\ data'[key].xp = EntryOf(data, ret'.user_id).xp + 10
               /\ \A k \in DOMAIN data \ {key} :
                     k \in DOMAIN data' /\ data'[k] = data[k]
       ELSE data' = data]_vars

\* two handlers of user 1 are in flight, a message waiting for its call
\* and a command, and the ledger has the xp of both
C22_Witness ==
    /\ Len(task) = 2
    /\ task[1].user_id = 1 /\ task[1].pc = "typing"
    /\ task[2].user_id = 1 /\ task[2].pc = "reply"
    /\ task[2].outcome = "command"
    /\ "1" \in DOMAIN data /\ data["1"].xp \in {20, 210}

\* this step is a call of reset on a ledger with entries
ResetStep == data' = EmptyDict /\ data # EmptyDict

\* C23: when add_xp or reset has returned, the persisted ledger is the
\* ledger in memory in full: every call writes through.
C23_WriteThrough ==
    [][(AddXpStep \/ ResetStep) =>
          /\ file'.exists
          /\ DOMAIN file'.content = DOMAIN data'
          /\ \A k \in DOMAIN data' :
                /\ file'.content[k].xp = data'[k].xp
                /\ file'.content[k].level = data'[k].level
                /\ file'.content[k].badges = data'[k].badges]_vars

\* add_xp returned for a second user with a badge: the file holds both
\* users as the memory does
C23_Witness ==
    /\ ret.user_id \in Users /\ ret.new_badges # <<>>
    /\ Cardinality(DOMAIN data) = 2
    /\ file.exists /\ file.content = data

\* C24: when add_xp returns, the user's xp is below the threshold of the
\* next level and, from level 2 on, at least the threshold of its level;
\* the thresholds of successive levels increase strictly, so the loop ends.
C24_LevelBracketsXp ==
    [][AddXpStep =>
         /\ ret'.xp < ExperienceRequiredFor(ret'.level + 1)
         /\ ret'.level >= 2 => ret'.xp >= ExperienceRequiredFor(ret'.level)
         /\ ret'.level \in Levels
         /\ \A L \in Levels :
               ExperienceRequiredFor(L + 1) > ExperienceRequiredFor(L)]_vars

\* a call that crossed several levels returned at level 6, the first level
\* of the quadratic thresholds
C24_Witness ==
    /\ ret.user_id \in Users
    /\ ret.level = 6 /\ ret.amount >= 3000
    /\ ret.xp >= ExperienceRequiredFor(6) /\ ret.xp < ExperienceRequiredFor(7)

-----------------------------------------------------------------------------
(* Claims about the persona of a user, checked under Spec *)

\* a /setrole with a name that is no loaded role
InvalidSetRole(t) ==
    IsSetRole(t.prompt) /\ SetRoleName(t.prompt) \notin DOMAIN BOT_ROLES

\* the role stored for a user, None when there is none
StoredRole(up, user_id) ==
    Get(Get(up, user_id, EmptyDict), "current_role", None)

\* C25: a /setrole naming a persona that is not in the table leaves the
\* user's stored persona and history unchanged; so a stored persona is
\* always a key of the table and a request is never built with the
\* fallback for a missing persona.
C25_UnknownPersonaChangesNothing ==
    /\ [][\A i \in DOMAIN task' :
            (/\ task'[i].pc = "reply" /\ InvalidSetRole(task'[i])
             /\ (i \in DOMAIN task => task[i].pc = "announce"))
               => LET u == task'[i].user_id
                  IN /\ Get(user_preferences', u, EmptyDict)
                           = Get(user_preferences, u, EmptyDict)
                     /\ u \in DOMAIN user_preferences'
                           <=> u \in DOMAIN user_preferences
                     /\ HistoryOf(conversation_history', u)
                           = HistoryOf(conversation_history, u)
                     /\ u \in DOMAIN conversation_history'
                           <=> u \in DOMAIN conversation_history]_vars
    /\ [](\A u \in Users :
             StoredRole(user_preferences, u) \in DOMAIN BOT_ROLES \cup {None})
    /\ [](\A i \in DOMAIN task :
             task[i].pc = "blocked" =>
                LET role == StoredRole(user_preferences, task[i].user_id)
                IN task[i].messages_payload[1].content
                      = BOT_ROLES[IF role = None THEN CURRENT_DEFAULT_ROLE
                                  ELSE role].system_prompt)

\* a /setrole naming "wizard" has acted for a user whose stored persona is
\* "pirate"
C25_Witness ==
    \E i \in DOMAIN task :
        /\ task[i].pc = "reply" /\ InvalidSetRole(task[i])
        /\ StoredRole(user_preferences, task[i].user_id) = "pirate"

-----------------------------------------------------------------------------
(* Claims about the schedule of the watchdog, checked under WatchSpec *)

\* an iteration of the watchdog has failed: the channel was not found, or
\* channel.history or channel.send raised
IterationFailed == watchdog \in {"retry", "caught"}

\* C26: a failure in an iteration of the watchdog does not end the
\* schedule: the coroutine ends only at the test of the while, when the
\* client is closed, and after a failed iteration it always comes back to
\* that test; and no step of the watchdog changes the conversation
\* history, the preferences or the ledger.
C26_FailureDoesNotEndSchedule ==
    /\ [][watchdog' = "stopped" => watchdog \in {"loop", "stopped"}]_vars
    /\ IterationFailed ~> (watchdog = "loop")
    /\ [][watchdog' # watchdog =>
            /\ conversation_history' = conversation_history
            /\ user_preferences' = user_preferences
            /\ data' = data
            /\ file' = file]_vars

\* an iteration has failed with an exception while a user has a history
\* and xp
C26_Witness ==
    /\ watchdog = "caught"
    /\ conversation_history # EmptyDict
    /\ data # EmptyDict

=============================================================================
